---- MODULE Spec2Model ----
(***************************************************************************)
(* contextmesh: the incremental symbol index engine (src/indexer/mod.rs    *)
(* with its SymbolStore, DependencyResolver and FileHashManager).          *)
(*                                                                         *)
(* A source file is represented by what the extractor reads from it: the   *)
(* list of its definitions in traversal order, each with its name, its     *)
(* position and the raw names it calls, or the fact that extraction fails  *)
(* on it.  SHA-256 is modelled as injective: the fingerprint of a content  *)
(* is the content, the identity of a symbol is the tuple of the fields     *)
(* that Symbol::hash feeds to the hasher (node kind and byte offsets are   *)
(* folded into the position).                                              *)
(***************************************************************************)
EXTENDS Integers, Sequences, FiniteSets, TLC

\* Longest list of raw names kept per caller in the unresolved table.
MaxUnresolved == 3
\* How many times the source tree is modified in one behaviour.
MaxEdits == 1

Files == {"a.rs", "b.rs"}

Def(n, l, c) == [name |-> n, line |-> l, calls |-> c]
Src(ok, defs) == [readable |-> TRUE, ok |-> ok, defs |-> defs]

\* A path whose bytes cannot be read (missing file, permission).
Unreadable == [readable |-> FALSE, ok |-> FALSE, defs |-> <<>>]
\* Option::None of a fingerprint: no entry, or no fingerprint could be computed.
NoHash == Unreadable

\* fn x() {}
SrcX == Src(TRUE, <<Def("x", 1, {})>>)
\* fn z() {}
SrcZ == Src(TRUE, <<Def("z", 1, {})>>)
\* fn x() { z(); }
SrcXz == Src(TRUE, <<Def("x", 1, {"z"})>>)
\* fn x() { x(); }
SrcRec == Src(TRUE, <<Def("x", 1, {"x"})>>)
\* fn y() { x(); }
SrcY == Src(TRUE, <<Def("y", 1, {"x"})>>)
\* fn y() { x(); z(); }
SrcYxz == Src(TRUE, <<Def("y", 1, {"x", "z"})>>)
\* fn x() {}
\* fn y() { x(); }
SrcXY == Src(TRUE, <<Def("x", 1, {}), Def("y", 2, {"x"})>>)
\* a definition whose name token is not valid UTF-8: extraction fails
SrcBad == Src(FALSE, <<>>)
\* an empty file
SrcEmpty == Src(TRUE, <<>>)

Catalog == {SrcEmpty, SrcX, SrcZ, SrcXz, SrcRec, SrcY, SrcYxz, SrcXY, SrcBad}

DiskStates == Catalog \cup {Unreadable}

----------------------------------------------------------------------------
\* RustIndexer: imports and callable names

EmptyImports == [k \in {} |-> ""]

\* str::split("::") on the paths that occur in the modelled sources
PathSegments(path_text) ==
    CASE path_text = "crate::a::original" -> <<"crate", "a", "original">>
      [] path_text = "a::original" -> <<"a", "original">>
      [] OTHER -> <<path_text>>

last_segment(path_text) == PathSegments(path_text)[Len(PathSegments(path_text))]

imports_insert(imports, key, path_text) ==
    [k \in DOMAIN imports \cup {key} |-> IF k = key THEN path_text ELSE imports[k]]

\* node.fields holds the text of the children that child_by_field_name finds
process_import_declaration(node, imports) ==
    IF node.kind # "use_declaration" THEN imports
    ELSE IF "path" \in DOMAIN node.fields
         THEN IF "alias" \in DOMAIN node.fields
              THEN imports_insert(imports, node.fields.alias, node.fields.path)
              ELSE imports_insert(imports, last_segment(node.fields.path), node.fields.path)
         ELSE imports

extract_callable_name(node, imports) ==
    CASE node.kind = "identifier" ->
            IF node.text \in DOMAIN imports THEN imports[node.text] ELSE node.text
      [] node.kind = "scoped_identifier" -> last_segment(node.text)
      [] OTHER -> ""

\* gather_references on the call expressions of one definition: the callable
\* name of every function node is pushed to the definition's dependencies
gather_references(func_nodes, imports) ==
    {extract_callable_name(n, imports) : n \in func_nodes}

\* `use crate::a::original as aliased;` as a use_declaration whose path and
\* alias are fields of the declaration itself
UseAliased == [kind |-> "use_declaration",
               fields |-> [path |-> "crate::a::original", alias |-> "aliased"]]
\* the same declaration as tree-sitter-rust builds it: the declaration has the
\* one field `argument`, the use_as_clause, which holds path and alias
UseAliasedClause == [kind |-> "use_declaration",
                     fields |-> [argument |-> "crate::a::original as aliased"]]
\* the function node of the call `aliased()`
CallAliased == [kind |-> "identifier", text |-> "aliased"]

\* fn original() {}
SrcOriginal == Src(TRUE, <<Def("original", 1, {})>>)
\* use crate::a::original as aliased;
\* fn caller() { aliased(); }
SrcAliased ==
    Src(TRUE, <<Def("caller", 2,
                    gather_references({CallAliased},
                                      process_import_declaration(UseAliased, EmptyImports)))>>)
SrcAliasedClause ==
    Src(TRUE, <<Def("caller", 2,
                    gather_references({CallAliased},
                                      process_import_declaration(UseAliasedClause, EmptyImports)))>>)
\* fn y() { x(); }
\* fn x() {}
SrcYX == Src(TRUE, <<Def("y", 1, {"x"}), Def("x", 2, {})>>)

\* `use crate::a::original;` as a use_declaration whose path is a field of
\* the declaration itself
UsePlain == [kind |-> "use_declaration", fields |-> [path |-> "crate::a::original"]]
\* the same declaration with the one field `argument`, the scoped identifier
UsePlainArgument == [kind |-> "use_declaration",
                     fields |-> [argument |-> "crate::a::original"]]
\* the function node of the call `original()`
CallPlain == [kind |-> "identifier", text |-> "original"]

\* use crate::a::original;
\* fn caller() { original(); }
SrcPlain ==
    Src(TRUE, <<Def("caller", 2,
                    gather_references({CallPlain},
                                      process_import_declaration(UsePlain, EmptyImports)))>>)
SrcPlainArgument ==
    Src(TRUE, <<Def("caller", 2,
                    gather_references({CallPlain},
                                      process_import_declaration(UsePlainArgument, EmptyImports)))>>)

\* the function node of the call `z()`
CallZ == [kind |-> "identifier", text |-> "z"]
\* use crate::a::original;
\* fn caller() { original(); z(); }
SrcPlainArgumentZ ==
    Src(TRUE, <<Def("caller", 2,
                    gather_references({CallPlain, CallZ},
                                      process_import_declaration(UsePlainArgument, EmptyImports)))>>)

\* the contents of the import scenarios
ImportCatalog == {SrcEmpty, SrcOriginal, SrcPlain, SrcPlainArgument, SrcPlainArgumentZ}

\* the contents of the name resolution scenarios
NameCatalog == {SrcEmpty, SrcOriginal, SrcAliased, SrcAliasedClause, SrcXY, SrcYX}

\* the source tree and the contents of the directory runs
RunFiles == {"a.rs", "b.rs", "c.rs"}
RunCatalog == {SrcX, SrcY, SrcBad, Unreadable}

VARIABLES
    disk,         \* the source tree: file path -> content or Unreadable
    file_hashes,  \* FileHashManager.file_hashes: path -> fingerprint or NoHash
    symbols,      \* SymbolStore.symbols: identity -> Symbol
    unresolved,   \* DependencyResolver.unresolved_deps: caller -> raw names
    name_map,     \* the global name map of the last resolution
    lastOp,       \* the operation that produced this state: which one, on which
                  \* file, how it ended, the identities it evicted and the
                  \* (caller, callee) links a recheck made
    edits,        \* how many times the source tree was modified
    snapshot,     \* the state of the file .contextmesh/index.bin: "missing",
                  \* "corrupt" (it cannot be decoded) or "valid"
    parsed        \* what the last CodeParser::parse_file call returned

vars == <<disk, file_hashes, symbols, unresolved, name_map, lastOp, edits, snapshot, parsed>>

\* no parse_file call has been made
NoParse == [symbols |-> <<>>, visits |-> <<>>]

EmptyMap == [k \in {} |-> {}]

----------------------------------------------------------------------------
\* Symbol and SymbolStore

hash(s) == [name |-> s.name, file_path |-> s.file_path, line_number |-> s.line_number]

SetToSeqs(S) == {q \in [1..Cardinality(S) -> S] : \A i, j \in 1..Cardinality(S) : q[i] = q[j] => i = j}

add_symbol(store, sym) ==
    [k \in DOMAIN store \cup {hash(sym)} |-> IF k = hash(sym) THEN sym ELSE store[k]]

\* remove_symbol without the sweep over the other symbols' used_by sets
remove_symbol_no_sweep(store, h) ==
    [k \in DOMAIN store \ {h} |-> store[k]]

remove_symbol(store, h) ==
    IF h \in DOMAIN store
    THEN [k \in DOMAIN store \ {h} |-> [store[k] EXCEPT !.used_by = @ \ {h}]]
    ELSE store

add_used_by(store, callee_hash, caller_hash) ==
    IF callee_hash \in DOMAIN store
    THEN [store EXCEPT ![callee_hash].used_by = @ \cup {caller_hash}]
    ELSE store

build_name_map(store) ==
    [n \in {store[h].name : h \in DOMAIN store} |-> {h \in DOMAIN store : store[h].name = n}]

\* the push replaces the list of the name instead of extending it
name_map_push_overwrite(map, n, h) ==
    [k \in DOMAIN map \cup {n} |-> IF k = n THEN {h} ELSE map[k]]

name_map_push(map, n, h) ==
    [k \in DOMAIN map \cup {n} |-> IF k = n
                                   THEN (IF n \in DOMAIN map THEN map[n] ELSE {}) \cup {h}
                                   ELSE map[k]]

----------------------------------------------------------------------------
\* FileHashManager and DependencyResolver

calculate_file_hash(content) == IF ~content.readable THEN NoHash ELSE content

\* has_changed that ignores the recorded fingerprint
has_changed_always(hashes, file_path, new_hash) == TRUE

has_changed(hashes, file_path, new_hash) ==
    IF hashes[file_path] = NoHash THEN TRUE ELSE hashes[file_path] # new_hash

file_hashes_insert(hashes, file_path, new_hash) == [hashes EXCEPT ![file_path] = new_hash]

\* add that forgets the missing name
resolver_add_dropped(unres, caller_hash, missing_name) == unres

resolver_add(unres, caller_hash, missing_name) ==
    [k \in DOMAIN unres \cup {caller_hash} |->
        IF k = caller_hash
        THEN Append(IF caller_hash \in DOMAIN unres THEN unres[caller_hash] ELSE <<>>, missing_name)
        ELSE unres[k]]

----------------------------------------------------------------------------
\* Indexer::index_file and its steps

RECURSIVE RemoveAll(_, _)
RemoveAll(store, hs) ==
    IF hs = {} THEN store
    ELSE LET h == CHOOSE k \in hs : TRUE
         IN RemoveAll(remove_symbol(store, h), hs \ {h})

\* an eviction that removes nothing
remove_deleted_symbols_in_file_keeps(store, file_path) == store

\* The order in which the old symbols are removed does not change the result.
remove_deleted_symbols_in_file(store, file_path) ==
    RemoveAll(store, {h \in DOMAIN store : store[h].file_path = file_path})

\* CodeParser::parse_file on a content that can be extracted: the symbols in
\* traversal order, their dependencies holding raw names.
parse_file_symbols(file_path, content) ==
    [i \in 1..Len(content.defs) |->
        [name |-> content.defs[i].name,
         file_path |-> file_path,
         line_number |-> content.defs[i].line,
         raw |-> content.defs[i].calls]]

build_local_name_map(new_symbols) ==
    [n \in {new_symbols[i].name : i \in 1..Len(new_symbols)} |->
        {hash(new_symbols[i]) : i \in {j \in 1..Len(new_symbols) : new_symbols[j].name = n}}]

\* The stored symbol; its raw names stay in new_symbols until resolution.
Stored(sym) ==
    [name |-> sym.name, file_path |-> sym.file_path, line_number |-> sym.line_number,
     dependencies |-> {}, used_by |-> {}]

RECURSIVE insert_new_symbols(_, _, _)
insert_new_symbols(store, global_name_map, new_symbols) ==
    IF new_symbols = <<>> THEN [store |-> store, map |-> global_name_map]
    ELSE LET sym == Head(new_symbols)
         IN insert_new_symbols(add_symbol(store, Stored(sym)),
                               name_map_push(global_name_map, sym.name, hash(sym)),
                               Tail(new_symbols))

\* the global map consulted first, the file-local map only as a fallback
resolve_one_dependency_global_first(raw_name, local_name_map, global_name_map) ==
    IF raw_name \in DOMAIN global_name_map THEN global_name_map[raw_name]
    ELSE IF raw_name \in DOMAIN local_name_map THEN local_name_map[raw_name]
    ELSE {}

resolve_one_dependency(raw_name, local_name_map, global_name_map) ==
    IF raw_name \in DOMAIN local_name_map THEN local_name_map[raw_name]
    ELSE IF raw_name \in DOMAIN global_name_map THEN global_name_map[raw_name]
    ELSE {}

\* the comparison with the symbol itself left out
NotSelf_dropped(dep_hash, this_hash) == TRUE

\* mod.rs:259 and mod.rs:302: a candidate equal to the symbol itself is dropped
NotSelf(dep_hash, this_hash) == dep_hash # this_hash

\* add_used_by for every kept candidate; the links are set insertions, so the
\* order of the candidates does not change the result.
RECURSIVE AddUsedByAll(_, _, _)
AddUsedByAll(store, deps, caller_hash) ==
    IF deps = {} THEN store
    ELSE LET d == CHOOSE k \in deps : TRUE
         IN AddUsedByAll(add_used_by(store, d, caller_hash), deps \ {d}, caller_hash)

\* The loop over the raw names of one symbol (mod.rs:246-265); st carries the
\* store, the unresolved table and new_dep_hashes.
RECURSIVE ResolveRawNames(_, _, _, _, _)
ResolveRawNames(st, this_hash, raw_names, local_name_map, global_name_map) ==
    IF raw_names = <<>> THEN st
    ELSE LET raw_name == Head(raw_names)
             candidates == resolve_one_dependency(raw_name, local_name_map, global_name_map)
             kept == {c \in candidates : NotSelf(c, this_hash)}
             next == IF candidates = {}
                     THEN [st EXCEPT !.unres = resolver_add(@, this_hash, raw_name)]
                     ELSE [st EXCEPT !.deps = @ \cup kept,
                                     !.store = AddUsedByAll(@, kept, this_hash)]
         IN ResolveRawNames(next, this_hash, Tail(raw_names), local_name_map, global_name_map)

\* the symbol is reinserted as it was parsed: what the symbols resolved before
\* it added to its used_by set is lost
RECURSIVE resolve_new_symbols_dependencies_fresh(_, _, _, _, _, _)
resolve_new_symbols_dependencies_fresh(store, unres, new_symbols, orders, local_name_map, global_name_map) ==
    IF new_symbols = <<>> THEN [store |-> store, unres |-> unres]
    ELSE LET sym == Head(new_symbols)
             this_hash == hash(sym)
         IN IF this_hash \notin DOMAIN store
            THEN resolve_new_symbols_dependencies_fresh(store, unres, Tail(new_symbols), Tail(orders),
                                                        local_name_map, global_name_map)
            ELSE LET st == ResolveRawNames([store |-> remove_symbol(store, this_hash),
                                            unres |-> unres, deps |-> {}],
                                           this_hash, Head(orders), local_name_map, global_name_map)
                     reinserted == add_symbol(st.store, [Stored(sym) EXCEPT !.dependencies = st.deps])
                 IN resolve_new_symbols_dependencies_fresh(reinserted, st.unres, Tail(new_symbols),
                                                           Tail(orders), local_name_map, global_name_map)

\* orders[i] is the order in which the raw names of new_symbols[i] are iterated.
RECURSIVE resolve_new_symbols_dependencies(_, _, _, _, _, _)
resolve_new_symbols_dependencies(store, unres, new_symbols, orders, local_name_map, global_name_map) ==
    IF new_symbols = <<>> THEN [store |-> store, unres |-> unres]
    ELSE LET sym == Head(new_symbols)
             this_hash == hash(sym)
         IN IF this_hash \notin DOMAIN store
            THEN resolve_new_symbols_dependencies(store, unres, Tail(new_symbols), Tail(orders),
                                                  local_name_map, global_name_map)
            ELSE LET updated_sym == store[this_hash]
                     st == ResolveRawNames([store |-> remove_symbol(store, this_hash),
                                            unres |-> unres, deps |-> {}],
                                           this_hash, Head(orders), local_name_map, global_name_map)
                     reinserted == add_symbol(st.store, [updated_sym EXCEPT !.dependencies = st.deps])
                 IN resolve_new_symbols_dependencies(reinserted, st.unres, Tail(new_symbols),
                                                     Tail(orders), local_name_map, global_name_map)

RawOrders(new_symbols) ==
    {o \in [1..Len(new_symbols) -> UNION {SetToSeqs(new_symbols[i].raw) : i \in 1..Len(new_symbols)}] :
        \A i \in 1..Len(new_symbols) : o[i] \in SetToSeqs(new_symbols[i].raw)}

\* parse_and_index_file that records the fingerprint before it parses
parse_and_index_file_hash_first(ix, file_path, new_hash, content, orders) ==
    LET marked == [ix EXCEPT !.file_hashes = file_hashes_insert(@, file_path, new_hash)]
    IN IF ~content.ok
       THEN [marked EXCEPT !.err = TRUE]
       ELSE LET new_symbols == parse_file_symbols(file_path, content)
                global0 == build_name_map(ix.symbols)
                local_name_map == build_local_name_map(new_symbols)
                ins == insert_new_symbols(ix.symbols, global0, new_symbols)
                res == resolve_new_symbols_dependencies(ins.store, ix.unresolved, new_symbols,
                                                        orders, local_name_map, ins.map)
            IN [marked EXCEPT !.symbols = res.store, !.unresolved = res.unres,
                              !.map = ins.map, !.outcome = "indexed"]

\* ix is the engine: file_hashes, symbols, unresolved.  The result also says
\* whether the call returned an error and which global name map it used.
parse_and_index_file(ix, file_path, new_hash, content, orders) ==
    IF ~content.ok
    THEN [ix EXCEPT !.err = TRUE]
    ELSE LET new_symbols == parse_file_symbols(file_path, content)
             global0 == build_name_map(ix.symbols)
             local_name_map == build_local_name_map(new_symbols)
             ins == insert_new_symbols(ix.symbols, global0, new_symbols)
             res == resolve_new_symbols_dependencies(ins.store, ix.unresolved, new_symbols,
                                                     orders, local_name_map, ins.map)
         IN [file_hashes |-> file_hashes_insert(ix.file_hashes, file_path, new_hash),
             symbols |-> res.store,
             unresolved |-> res.unres,
             map |-> ins.map,
             err |-> FALSE,
             outcome |-> "indexed",
             repaired |-> {},
             evicted |-> ix.evicted]

\* index_file that treats a path it cannot read as a deleted file
index_file_unreadable_evicts(ix, file_path, content, orders) ==
    LET new_hash == calculate_file_hash(content)
    IN IF new_hash = NoHash
       THEN [ix EXCEPT !.symbols = remove_deleted_symbols_in_file(@, file_path),
                       !.outcome = "unreadable"]
       ELSE IF has_changed(ix.file_hashes, file_path, new_hash)
            THEN LET evicted == [ix EXCEPT !.symbols = remove_deleted_symbols_in_file(@, file_path),
                                           !.evicted = {h \in DOMAIN ix.symbols :
                                                           ix.symbols[h].file_path = file_path},
                                           !.outcome = "failed"]
                 IN parse_and_index_file(evicted, file_path, new_hash, content, orders)
            ELSE [ix EXCEPT !.outcome = "skipped"]

index_file(ix, file_path, content, orders) ==
    LET new_hash == calculate_file_hash(content)
    IN IF new_hash = NoHash THEN [ix EXCEPT !.outcome = "unreadable"]
       ELSE IF has_changed(ix.file_hashes, file_path, new_hash)
            THEN LET evicted == [ix EXCEPT !.symbols = remove_deleted_symbols_in_file(@, file_path),
                                           !.evicted = {h \in DOMAIN ix.symbols :
                                                           ix.symbols[h].file_path = file_path},
                                           !.outcome = "failed"]
                 IN parse_and_index_file(evicted, file_path, new_hash, content, orders)
            ELSE [ix EXCEPT !.outcome = "skipped"]

\* the loop over the missing names with the used_by_links push left out
RECURSIVE RecheckNames_no_links(_, _, _, _)
RecheckNames_no_links(st, caller_hash, missing_names, global_map) ==
    IF missing_names = <<>> THEN st
    ELSE LET raw_name == Head(missing_names)
             next == IF raw_name \in DOMAIN global_map
                     THEN LET kept == {d \in global_map[raw_name] : NotSelf(d, caller_hash)}
                          IN [st EXCEPT !.deps = @ \cup kept]
                     ELSE [st EXCEPT !.leftover = Append(@, raw_name)]
         IN RecheckNames_no_links(next, caller_hash, Tail(missing_names), global_map)

\* The loop over the missing names of one caller (mod.rs:298-313); st carries
\* caller_sym.dependencies, leftover and used_by_links.
RECURSIVE RecheckNames(_, _, _, _)
RecheckNames(st, caller_hash, missing_names, global_map) ==
    IF missing_names = <<>> THEN st
    ELSE LET raw_name == Head(missing_names)
             next == IF raw_name \in DOMAIN global_map
                     THEN LET kept == {d \in global_map[raw_name] : NotSelf(d, caller_hash)}
                          IN [st EXCEPT !.deps = @ \cup kept, !.links = @ \cup kept]
                     ELSE [st EXCEPT !.leftover = Append(@, raw_name)]
         IN RecheckNames(next, caller_hash, Tail(missing_names), global_map)

\* The loop over the drained callers (mod.rs:290-331), in the order `drained`.
RECURSIVE RecheckCallers(_, _, _, _)
RecheckCallers(st, drained, unres, global_map) ==
    IF drained = <<>> THEN st
    ELSE LET caller_hash == Head(drained)
         IN IF caller_hash \notin DOMAIN st.store
            THEN RecheckCallers(st, Tail(drained), unres, global_map)
            ELSE LET caller_sym == st.store[caller_hash]
                     r == RecheckNames([deps |-> caller_sym.dependencies, leftover |-> <<>>, links |-> {}],
                                       caller_hash, unres[caller_hash], global_map)
                     reinserted == add_symbol(remove_symbol(st.store, caller_hash),
                                              [caller_sym EXCEPT !.dependencies = r.deps])
                     linked == AddUsedByAll(reinserted, r.links, caller_hash)
                     still == IF r.leftover # <<>>
                              THEN [k \in DOMAIN st.still \cup {caller_hash} |->
                                       IF k = caller_hash THEN r.leftover ELSE st.still[k]]
                              ELSE st.still
                 IN RecheckCallers([store |-> linked, still |-> still,
                                    repaired |-> st.repaired \cup {<<caller_hash, d>> : d \in r.links}],
                                   Tail(drained), unres, global_map)

\* recheck_unresolved that puts the entries of evicted callers back
recheck_unresolved_keeps_evicted(ix, drained) ==
    LET global_map == build_name_map(ix.symbols)
        r == RecheckCallers([store |-> ix.symbols, still |-> EmptyMap, repaired |-> {}],
                            drained, ix.unresolved, global_map)
        gone == DOMAIN ix.unresolved \ DOMAIN ix.symbols
    IN [ix EXCEPT !.symbols = r.store,
                  !.unresolved = [c \in DOMAIN r.still \cup gone |->
                                     IF c \in DOMAIN r.still THEN r.still[c] ELSE ix.unresolved[c]],
                  !.map = global_map, !.outcome = "rechecked", !.repaired = r.repaired]

\* drained is the order in which HashMap::drain hands out the callers.
recheck_unresolved(ix, drained) ==
    LET global_map == build_name_map(ix.symbols)
        r == RecheckCallers([store |-> ix.symbols, still |-> EmptyMap, repaired |-> {}],
                            drained, ix.unresolved, global_map)
    IN [ix EXCEPT !.symbols = r.store, !.unresolved = r.still, !.map = global_map,
                  !.outcome = "rechecked", !.repaired = r.repaired]

Engine == [file_hashes |-> file_hashes, symbols |-> symbols, unresolved |-> unresolved,
           map |-> name_map, err |-> FALSE, outcome |-> "none", repaired |-> {}, evicted |-> {}]

OrdersFor(file_path) ==
    IF ~disk[file_path].readable \/ ~disk[file_path].ok THEN {<<>>}
    ELSE RawOrders(parse_file_symbols(file_path, disk[file_path]))

Bounded(unres) == \A c \in DOMAIN unres : Len(unres[c]) <= MaxUnresolved

----------------------------------------------------------------------------
Init ==
    /\ disk \in [Files -> DiskStates]
    /\ file_hashes = [f \in Files |-> NoHash]
    /\ symbols = EmptyMap
    /\ unresolved = EmptyMap
    /\ name_map = EmptyMap
    /\ lastOp = [op |-> "new", file |-> "-", outcome |-> "none", repaired |-> {}, evicted |-> {}]
    /\ edits = 0
    /\ snapshot = "missing"
    /\ parsed = NoParse

\* The file is rewritten, deleted or made unreadable between two runs.
Edit(f) ==
    \E c \in DiskStates :
        /\ c # disk[f]
        /\ edits < MaxEdits
        /\ edits' = edits + 1
        /\ disk' = [disk EXCEPT ![f] = c]
        /\ lastOp' = [op |-> "edit", file |-> "-", outcome |-> "none", repaired |-> {}, evicted |-> {}]
        /\ UNCHANGED <<file_hashes, symbols, unresolved, name_map, snapshot, parsed>>

IndexFile(f) ==
    \E orders \in OrdersFor(f) :
        LET r == index_file(Engine, f, disk[f], orders)
        IN /\ Bounded(r.unresolved)
           /\ file_hashes' = r.file_hashes
           /\ symbols' = r.symbols
           /\ unresolved' = r.unresolved
           /\ name_map' = r.map
           /\ lastOp' = [op |-> "index", file |-> f, outcome |-> r.outcome, repaired |-> {},
                      evicted |-> r.evicted]
           /\ UNCHANGED <<disk, edits, snapshot, parsed>>

RecheckUnresolved ==
    \E drained \in SetToSeqs(DOMAIN unresolved) :
        LET r == recheck_unresolved(Engine, drained)
        IN /\ symbols' = r.symbols
           /\ unresolved' = r.unresolved
           /\ name_map' = r.map
           /\ lastOp' = [op |-> "recheck", file |-> "-", outcome |-> r.outcome, repaired |-> r.repaired,
                      evicted |-> {}]
           /\ UNCHANGED <<disk, file_hashes, edits, snapshot, parsed>>

Next ==
    \/ \E f \in Files : Edit(f)
    \/ \E f \in Files : IndexFile(f)
    \/ RecheckUnresolved

Spec == Init /\ [][Next]_vars

----------------------------------------------------------------------------
\* Name resolution scenarios: the engine over two files with use
\* declarations and both orders of caller and callee

Rewrite(f, contents) ==
    \E c \in contents :
        /\ c # disk[f]
        /\ edits < MaxEdits
        /\ edits' = edits + 1
        /\ disk' = [disk EXCEPT ![f] = c]
        /\ lastOp' = [op |-> "edit", file |-> "-", outcome |-> "none", repaired |-> {}, evicted |-> {}]
        /\ UNCHANGED <<file_hashes, symbols, unresolved, name_map, snapshot, parsed>>

InitNames ==
    /\ disk \in [Files -> NameCatalog]
    /\ file_hashes = [f \in Files |-> NoHash]
    /\ symbols = EmptyMap
    /\ unresolved = EmptyMap
    /\ name_map = EmptyMap
    /\ lastOp = [op |-> "new", file |-> "-", outcome |-> "none", repaired |-> {}, evicted |-> {}]
    /\ edits = 0
    /\ snapshot = "missing"
    /\ parsed = NoParse

EditNames(f) == Rewrite(f, NameCatalog)

\* a HashSet or the entries of a HashMap written in the order `order`
Entries(map, order) == [i \in 1..Len(order) |-> <<order[i], map[order[i]]>>]
SeqRange(q) == {q[i] : i \in 1..Len(q)}

\* the orders in which the dependencies and the used_by set of every symbol
\* can be iterated
SetOrders(store) ==
    {o \in [DOMAIN store -> UNION {[d : SetToSeqs(store[h].dependencies),
                                     u : SetToSeqs(store[h].used_by)] : h \in DOMAIN store}] :
        \A h \in DOMAIN store : /\ o[h].d \in SetToSeqs(store[h].dependencies)
                                 /\ o[h].u \in SetToSeqs(store[h].used_by)}

\* bincode::serialize(&Indexer): the three maps as entry lists and every set
\* as a list, each in the iteration order of its hash table
serialize(ix) ==
    {[file_hashes |-> Entries(ix.file_hashes, fo),
      symbols |-> Entries([h \in DOMAIN ix.symbols |->
                              [name |-> ix.symbols[h].name,
                               file_path |-> ix.symbols[h].file_path,
                               line_number |-> ix.symbols[h].line_number,
                               dependencies |-> so[h].d,
                               used_by |-> so[h].u]], ho),
      unresolved |-> Entries(ix.unresolved, uo)] :
        fo \in SetToSeqs({f \in DOMAIN ix.file_hashes : ix.file_hashes[f] # NoHash}),
        ho \in SetToSeqs(DOMAIN ix.symbols),
        so \in SetOrders(ix.symbols),
        uo \in SetToSeqs(DOMAIN ix.unresolved)}

\* a map read back: the entries are inserted one after the other
RECURSIVE DecodeMap(_, _)
DecodeMap(entries, acc) ==
    IF entries = <<>> THEN acc
    ELSE DecodeMap(Tail(entries),
                   [k \in DOMAIN acc \cup {Head(entries)[1]} |->
                       IF k = Head(entries)[1] THEN Head(entries)[2] ELSE acc[k]])

DecodeSymbol(e) ==
    [name |-> e.name, file_path |-> e.file_path, line_number |-> e.line_number,
     dependencies |-> SeqRange(e.dependencies), used_by |-> SeqRange(e.used_by)]

\* deserialize that leaves used_by at its default, as under #[serde(skip)]
deserialize_skips_used_by(bytes, files) ==
    LET syms == DecodeMap(bytes.symbols, EmptyMap)
    IN [file_hashes |-> DecodeMap(bytes.file_hashes, [f \in files |-> NoHash]),
        symbols |-> [h \in DOMAIN syms |-> [DecodeSymbol(syms[h]) EXCEPT !.used_by = {}]],
        unresolved |-> DecodeMap(bytes.unresolved, EmptyMap)]

\* bincode::deserialize::<Indexer>; a path without an entry has no fingerprint
deserialize(bytes, files) ==
    LET syms == DecodeMap(bytes.symbols, EmptyMap)
    IN [file_hashes |-> DecodeMap(bytes.file_hashes, [f \in files |-> NoHash]),
        symbols |-> [h \in DOMAIN syms |-> DecodeSymbol(syms[h])],
        unresolved |-> DecodeMap(bytes.unresolved, EmptyMap)]

\* save_index followed by load_index
Reload ==
    \E bytes \in serialize(Engine) :
        LET ix == deserialize(bytes, DOMAIN file_hashes)
        IN /\ file_hashes' = ix.file_hashes
           /\ symbols' = ix.symbols
           /\ unresolved' = ix.unresolved
           /\ snapshot' = "valid"
           /\ lastOp' = [op |-> "reload", file |-> "-", outcome |-> "none", repaired |-> {},
                         evicted |-> {}]
           /\ UNCHANGED <<disk, name_map, edits, parsed>>

NextNames ==
    \/ \E f \in Files : EditNames(f)
    \/ \E f \in Files : IndexFile(f)
    \/ RecheckUnresolved
    \/ Reload

SpecNames == InitNames /\ [][NextNames]_vars

----------------------------------------------------------------------------
\* commands/index.rs: the directory run.  The variables file_hashes, symbols
\* and unresolved are the saved index (.contextmesh/index.bin): a run loads
\* it, works on the loaded copy and saves that copy at its end.

\* The loop over the collected files (index.rs:26-52); a failed parse ends it.
RECURSIVE handle_index_files(_, _, _, _)
handle_index_files(ix, files, tree, ords) ==
    IF files = <<>> THEN ix
    ELSE LET r == index_file(ix, Head(files), tree[Head(files)], ords[Head(files)])
         IN IF r.err THEN r
            ELSE handle_index_files(r, Tail(files), tree, ords)

\* for every file an order of the raw names of each of its symbols
RunOrders ==
    {o \in [DOMAIN disk -> UNION {OrdersFor(f) : f \in DOMAIN disk}] :
        \A f \in DOMAIN disk : o[f] \in OrdersFor(f)}

InitRun ==
    /\ disk \in [RunFiles -> RunCatalog]
    /\ file_hashes = [f \in RunFiles |-> NoHash]
    /\ symbols = EmptyMap
    /\ unresolved = EmptyMap
    /\ name_map = EmptyMap
    /\ lastOp = [op |-> "new", file |-> "-", outcome |-> "none", repaired |-> {}, evicted |-> {}]
    /\ edits = 0
    /\ snapshot = "missing"
    /\ parsed = NoParse

EditRun(f) == Rewrite(f, RunCatalog)

\* Indexer::new() for the files of the tree
Indexer_new(ix) ==
    [ix EXCEPT !.file_hashes = [f \in DOMAIN ix.file_hashes |-> NoHash],
               !.symbols = EmptyMap,
               !.unresolved = EmptyMap]

\* Indexer::load_index: saved is what a valid snapshot decodes to
load_index(snap, saved) ==
    IF snap = "missing" THEN [err |-> "IndexNotFound", index |-> saved]
    ELSE IF snap = "corrupt" THEN [err |-> "DeserializationError", index |-> saved]
    ELSE [err |-> "none", index |-> saved]

\* load_or_create_index that goes on with what it could not load
load_or_create_index_keeps_saved(snap, saved) == load_index(snap, saved).index

load_or_create_index(snap, saved) ==
    IF load_index(snap, saved).err = "none"
    THEN load_index(snap, saved).index
    ELSE Indexer_new(saved)

\* handle_index: files is the order in which collect_files lists the tree.  A
\* path that does not exist is not listed and a listed path that cannot be
\* read is skipped by the loop: both leave the index as it is.  While the
\* snapshot is not valid, file_hashes, symbols and unresolved hold what the
\* last valid snapshot held.
HandleIndex ==
    \E files \in SetToSeqs(DOMAIN disk) : \E ords \in RunOrders :
        LET loaded == load_or_create_index(snapshot, Engine)
            looped == handle_index_files(loaded, files, disk, ords)
        IN IF looped.err
           THEN /\ lastOp' = [op |-> "run", file |-> "-", outcome |-> "aborted", repaired |-> {},
                              evicted |-> {}, load |-> load_index(snapshot, Engine).err]
                /\ UNCHANGED <<disk, file_hashes, symbols, unresolved, name_map, edits,
                               snapshot, parsed>>
           ELSE \E drained \in SetToSeqs(DOMAIN looped.unresolved) :
                    LET r == recheck_unresolved(looped, drained)
                    IN /\ Bounded(r.unresolved)
                       /\ file_hashes' = r.file_hashes
                       /\ symbols' = r.symbols
                       /\ unresolved' = r.unresolved
                       /\ name_map' = r.map
                       /\ snapshot' = "valid"
                       /\ lastOp' = [op |-> "run", file |-> "-", outcome |-> "completed",
                                     repaired |-> r.repaired, evicted |-> {},
                                     load |-> load_index(snapshot, Engine).err]
                       /\ UNCHANGED <<disk, edits, parsed>>

\* Between two runs the snapshot file is deleted or overwritten with bytes
\* that do not decode.
DamageSnapshot ==
    \E k \in {"missing", "corrupt"} :
        /\ snapshot = "valid"
        /\ snapshot' = k
        /\ lastOp' = [op |-> "damage", file |-> "-", outcome |-> "none", repaired |-> {},
                      evicted |-> {}]
        /\ UNCHANGED <<disk, file_hashes, symbols, unresolved, name_map, edits, parsed>>

NextRun ==
    \/ \E f \in RunFiles : EditRun(f)
    \/ HandleIndex
    \/ DamageSnapshot

SpecRun == InitRun /\ [][NextRun]_vars

----------------------------------------------------------------------------
\* Directory runs over two files whose contents have callers with one name
\* that resolves and one that does not.

OrderCatalog == {SrcX, SrcZ, SrcY, SrcYxz, SrcXY}

InitOrder ==
    /\ disk \in [Files -> OrderCatalog]
    /\ file_hashes = [f \in Files |-> NoHash]
    /\ symbols = EmptyMap
    /\ unresolved = EmptyMap
    /\ name_map = EmptyMap
    /\ lastOp = [op |-> "new", file |-> "-", outcome |-> "none", repaired |-> {}, evicted |-> {}]
    /\ edits = 0
    /\ snapshot = "missing"
    /\ parsed = NoParse

EditOrder(f) == Rewrite(f, OrderCatalog)

NextOrder ==
    \/ \E f \in Files : EditOrder(f)
    \/ HandleIndex
    \/ DamageSnapshot

SpecOrder == InitOrder /\ [][NextOrder]_vars

----------------------------------------------------------------------------
\* Indexing files that import the functions they call.

InitImports ==
    /\ disk \in [Files -> ImportCatalog]
    /\ file_hashes = [f \in Files |-> NoHash]
    /\ symbols = EmptyMap
    /\ unresolved = EmptyMap
    /\ name_map = EmptyMap
    /\ lastOp = [op |-> "new", file |-> "-", outcome |-> "none", repaired |-> {}, evicted |-> {}]
    /\ edits = 0
    /\ snapshot = "missing"
    /\ parsed = NoParse

EditImports(f) == Rewrite(f, ImportCatalog)

NextImports ==
    \/ \E f \in Files : EditImports(f)
    \/ \E f \in Files : IndexFile(f)
    \/ RecheckUnresolved

SpecImports == InitImports /\ [][NextImports]_vars

----------------------------------------------------------------------------
\* Index (src/index.rs): the engine with a live name map, one step per effect
\* of index_file.  The raw names of a new symbol stay in `parsed` until the
\* resolution step replaces them; the modelled contents define no identity
\* twice.

IndexCatalog == {SrcX, SrcRec, SrcY, SrcXY, SrcBad, Unreadable}

Index_remove_hash_from_name_map(map, name, sym_hash) ==
    IF name \notin DOMAIN map THEN map
    ELSE IF map[name] \ {sym_hash} = {}
         THEN [k \in DOMAIN map \ {name} |-> map[k]]
         ELSE [map EXCEPT ![name] = @ \ {sym_hash}]

\* st is the pair of Index.symbols and Index.name_map
Index_add_symbol(st, sym) ==
    LET h == hash(sym)
        cleaned == IF h \in DOMAIN st.store
                   THEN Index_remove_hash_from_name_map(st.map, st.store[h].name, h)
                   ELSE st.map
    IN [store |-> [k \in DOMAIN st.store \cup {h} |-> IF k = h THEN sym ELSE st.store[k]],
        map |-> [k \in DOMAIN cleaned \cup {sym.name} |->
                    IF k = sym.name
                    THEN (IF sym.name \in DOMAIN cleaned THEN cleaned[sym.name] ELSE {}) \cup {h}
                    ELSE cleaned[k]]]

\* the other symbols' dependencies and used_by sets are left as they are
Index_remove_symbol(st, sym_hash) ==
    IF sym_hash \in DOMAIN st.store
    THEN [store |-> [k \in DOMAIN st.store \ {sym_hash} |-> st.store[k]],
          map |-> Index_remove_hash_from_name_map(st.map, st.store[sym_hash].name, sym_hash)]
    ELSE st

RECURSIVE Index_remove_all(_, _)
Index_remove_all(st, old_hashes) ==
    IF old_hashes = {} THEN st
    ELSE LET h == CHOOSE k \in old_hashes : TRUE
         IN Index_remove_all(Index_remove_symbol(st, h), old_hashes \ {h})

RECURSIVE Index_add_all(_, _)
Index_add_all(st, parsed_syms) ==
    IF parsed_syms = <<>> THEN st
    ELSE Index_add_all(Index_add_symbol(st, Stored(Head(parsed_syms))), Tail(parsed_syms))

\* unresolved_dependencies.entry(caller).or_default().push(raw_name)
Index_unresolved_push(unres, this_hash, raw_name) ==
    [k \in DOMAIN unres \cup {this_hash} |->
        IF k = this_hash
        THEN Append(IF this_hash \in DOMAIN unres THEN unres[this_hash] ELSE <<>>, raw_name)
        ELSE unres[k]]

\* The loop over the raw names of one symbol (index.rs:141-168); st carries
\* unresolved_dependencies, new_dep_hashes and used_by_updates.
RECURSIVE Index_resolve_raw_names(_, _, _, _)
Index_resolve_raw_names(st, this_hash, raw_names, map) ==
    IF raw_names = <<>> THEN st
    ELSE LET raw_name == Head(raw_names)
             candidates == (IF raw_name \in DOMAIN map THEN map[raw_name] ELSE {}) \ {this_hash}
             next == IF candidates = {}
                     THEN [st EXCEPT !.unres = Index_unresolved_push(@, this_hash, raw_name)]
                     ELSE [st EXCEPT !.deps = @ \cup candidates,
                                     !.updates = @ \cup {<<c, this_hash>> : c \in candidates}]
         IN Index_resolve_raw_names(next, this_hash, Tail(raw_names), map)

\* The loop over new_symbols (index.rs:133-173).
RECURSIVE Index_resolve_symbols(_, _, _, _)
Index_resolve_symbols(st, new_symbols, orders, map) ==
    IF new_symbols = <<>> THEN st
    ELSE LET this_hash == hash(Head(new_symbols))
         IN IF this_hash \notin DOMAIN st.store
            THEN Index_resolve_symbols(st, Tail(new_symbols), Tail(orders), map)
            ELSE LET r == Index_resolve_raw_names([unres |-> st.unres, deps |-> {},
                                                   updates |-> st.updates],
                                                  this_hash, Head(orders), map)
                 IN Index_resolve_symbols(
                        [store |-> [st.store EXCEPT ![this_hash].dependencies = r.deps],
                         unres |-> r.unres, updates |-> r.updates],
                        Tail(new_symbols), Tail(orders), map)

\* used_by_updates are applied in one pass after the loop (index.rs:176-180)
Index_resolve_new_symbols_dependencies(store, unres, map, new_symbols, orders) ==
    LET r == Index_resolve_symbols([store |-> store, unres |-> unres, updates |-> {}],
                                   new_symbols, orders, map)
    IN [store |-> [h \in DOMAIN r.store |->
                      [r.store[h] EXCEPT !.used_by = @ \cup {u[2] : u \in {v \in r.updates : v[1] = h}}]],
        unres |-> r.unres]

InCall == lastOp.op = "index_file"
At(pc) == InCall /\ lastOp.outcome = pc
Frame(f, pc, evicted) ==
    [op |-> "index_file", file |-> f, outcome |-> pc, repaired |-> {}, evicted |-> evicted]
Returned(f, outcome, evicted) ==
    [op |-> "index", file |-> f, outcome |-> outcome, repaired |-> {}, evicted |-> evicted]

InitIndex ==
    /\ disk \in [Files -> IndexCatalog]
    /\ file_hashes = [f \in Files |-> NoHash]
    /\ symbols = EmptyMap
    /\ unresolved = EmptyMap
    /\ name_map = EmptyMap
    /\ lastOp = [op |-> "new", file |-> "-", outcome |-> "none", repaired |-> {}, evicted |-> {}]
    /\ edits = 0
    /\ snapshot = "missing"
    /\ parsed = NoParse

EditIndex(f) == ~InCall /\ Rewrite(f, IndexCatalog)

\* index.rs:80-93: the fingerprint of the content and the comparison
Index_index_file(f) ==
    /\ ~InCall
    /\ LET new_hash == calculate_file_hash(disk[f])
       IN lastOp' = IF new_hash = NoHash THEN Returned(f, "unreadable", {})
                    ELSE IF has_changed(file_hashes, f, new_hash) THEN Frame(f, "changed", {})
                    ELSE Returned(f, "skipped", {})
    /\ parsed' = NoParse
    /\ UNCHANGED <<disk, file_hashes, symbols, unresolved, name_map, edits, snapshot>>

\* index.rs:97: code_parser.parse_file(&file_path)?
Index_parse ==
    /\ At("changed")
    /\ IF disk[lastOp.file].ok
       THEN /\ parsed' = [symbols |-> parse_file_symbols(lastOp.file, disk[lastOp.file]),
                          visits |-> <<>>, file |-> lastOp.file]
            /\ lastOp' = Frame(lastOp.file, "parsed", {})
       ELSE /\ parsed' = NoParse
            /\ lastOp' = Returned(lastOp.file, "failed", {})
    /\ UNCHANGED <<disk, file_hashes, symbols, unresolved, name_map, edits, snapshot>>

\* index.rs:100-109: the old symbols of the file are removed
Index_evict ==
    /\ At("parsed")
    /\ LET old_hashes == {h \in DOMAIN symbols : symbols[h].file_path = lastOp.file}
           st == Index_remove_all([store |-> symbols, map |-> name_map], old_hashes)
       IN /\ symbols' = st.store
          /\ name_map' = st.map
          /\ lastOp' = Frame(lastOp.file, "evicted", old_hashes)
    /\ UNCHANGED <<disk, file_hashes, unresolved, edits, snapshot, parsed>>

\* index.rs:111-114: the parsed symbols are inserted
Index_insert ==
    /\ At("evicted")
    /\ LET st == Index_add_all([store |-> symbols, map |-> name_map], parsed.symbols)
       IN /\ symbols' = st.store
          /\ name_map' = st.map
    /\ lastOp' = Frame(lastOp.file, "inserted", lastOp.evicted)
    /\ UNCHANGED <<disk, file_hashes, unresolved, edits, snapshot, parsed>>

\* index.rs:117: resolve_new_symbols_dependencies
Index_resolve ==
    /\ At("inserted")
    /\ \E orders \in RawOrders(parsed.symbols) :
          LET r == Index_resolve_new_symbols_dependencies(symbols, unresolved, name_map,
                                                          parsed.symbols, orders)
          IN /\ Bounded(r.unres)
             /\ symbols' = r.store
             /\ unresolved' = r.unres
    /\ lastOp' = Frame(lastOp.file, "resolved", lastOp.evicted)
    /\ UNCHANGED <<disk, file_hashes, name_map, edits, snapshot, parsed>>

\* index.rs:120: the fingerprint is recorded and the call returns
Index_record_hash ==
    /\ At("resolved")
    /\ file_hashes' = file_hashes_insert(file_hashes, lastOp.file,
                                         calculate_file_hash(disk[lastOp.file]))
    /\ lastOp' = Returned(lastOp.file, "indexed", lastOp.evicted)
    /\ parsed' = NoParse
    /\ UNCHANGED <<disk, symbols, unresolved, name_map, edits, snapshot>>

NextIndex ==
    \/ \E f \in Files : EditIndex(f)
    \/ \E f \in Files : Index_index_file(f)
    \/ Index_parse
    \/ Index_evict
    \/ Index_insert
    \/ Index_resolve
    \/ Index_record_hash

SpecIndex == InitIndex /\ [][NextIndex]_vars

----------------------------------------------------------------------------
\* CodeParser (src/parser/mod.rs) on syntax trees.  A node carries its kind,
\* the row of its first byte, its text, its fields (field name -> position
\* among its children) and its children, anonymous ones (keywords) included;
\* children that neither pass looks at (parameters, arguments, braces) are
\* left out of the trees.

EmptyFields == [k \in {} |-> 0]
\* the text of a token whose bytes are not valid UTF-8
BadText == "<invalid utf-8>"

TreeNode(kind, row, text, fields, children) ==
    [kind |-> kind, row |-> row, text |-> text, fields |-> fields, children |-> children]
Leaf(kind, row, text) == TreeNode(kind, row, text, EmptyFields, <<>>)
Ident(row, text) == Leaf("identifier", row, text)
\* fn <name> { <body> }, the name token on row name_row
FnItem(row, name_row, name, body) ==
    TreeNode("function_item", row, "", [name |-> 2, body |-> 3],
             <<Leaf("fn", row, "fn"), Ident(name_row, name),
               TreeNode("block", name_row, "", EmptyFields, body)>>)
\* <function>()
CallExpr(row, function) ==
    TreeNode("call_expression", row, "", [function |-> 1], <<function>>)
\* a::x
ScopedIdent(row, text) ==
    TreeNode("scoped_identifier", row, text, [path |-> 1, name |-> 2],
             <<Ident(row, PathSegments(text)[1]), Ident(row, last_segment(text))>>)
\* s.f
FieldExpr(row, value, field) ==
    TreeNode("field_expression", row, "", [value |-> 1, field |-> 2],
             <<Ident(row, value), Leaf("field_identifier", row, field)>>)
\* mod <name> { <items> }
ModItem(row, name, items) ==
    TreeNode("mod_item", row, "", [name |-> 2, body |-> 3],
             <<Leaf("mod", row, "mod"), Ident(row, name),
               TreeNode("declaration_list", row, "", EmptyFields, items)>>)
\* impl S { <items> }
ImplItem(row, items) ==
    TreeNode("impl_item", row, "", [type |-> 2, body |-> 3],
             <<Leaf("impl", row, "impl"), Leaf("type_identifier", row, "S"),
               TreeNode("declaration_list", row, "", EmptyFields, items)>>)
SourceFile(items) == TreeNode("source_file", 0, "", EmptyFields, items)

child_by_field_name(node, field) == node.children[node.fields[field]]
has_field(node, field) == field \in DOMAIN node.fields

allowed_definition_kinds ==
    {"function_item", "method_declaration", "trait_item", "impl_item", "struct_item",
     "enum_item", "field_declaration", "static_item", "const_item"}

\* Result<String, _> of utf8_text and of the functions built on it
build_qualified_name(node) ==
    IF has_field(node, "name")
    THEN [err |-> child_by_field_name(node, "name").text = BadText,
          name |-> child_by_field_name(node, "name").text]
    ELSE [err |-> FALSE, name |-> ""]

enter_module(node, current_module) ==
    IF node.kind = "mod_item" /\ has_field(node, "name")
    THEN IF child_by_field_name(node, "name").text = BadText
         THEN [err |-> TRUE, stack |-> current_module]
         ELSE [err |-> FALSE,
               stack |-> Append(current_module, child_by_field_name(node, "name").text)]
    ELSE [err |-> FALSE, stack |-> current_module]

exit_module(current_module) ==
    IF current_module # <<>> THEN SubSeq(current_module, 1, Len(current_module) - 1)
    ELSE current_module

\* the use_declaration as process_import_declaration reads it
ImportView(node) ==
    [kind |-> node.kind,
     fields |-> [k \in DOMAIN node.fields |-> node.children[node.fields[k]].text]]

\* the record one visit of Pass 1 leaves behind: the module stack when the
\* walk entered the node and when it left it, and the names of the module
\* items that enclose the node in the tree
Visit(node, enclosing, enter, leave, err) ==
    [kind |-> node.kind, row |-> node.row, enclosing |-> enclosing,
     enter |-> enter, leave |-> leave, err |-> err]

EnclosingOfChildren(node, enclosing) ==
    IF node.kind = "mod_item" /\ has_field(node, "name")
    THEN Append(enclosing, child_by_field_name(node, "name").text)
    ELSE enclosing

\* Pass 1.  st carries symbols, imports, current_module (stack), the visit
\* records and whether an error is being returned.
RECURSIVE collect_definitions_and_imports(_, _, _, _)
RECURSIVE collect_children(_, _, _, _)
collect_children(st, children, file_path, enclosing) ==
    IF children = <<>> \/ st.err THEN st
    ELSE collect_children(collect_definitions_and_imports(st, Head(children), file_path, enclosing),
                          Tail(children), file_path, enclosing)

collect_definitions_and_imports(st, node, file_path, enclosing) ==
    LET entered == enter_module(node, st.stack)
        full_name == build_qualified_name(node)
        is_def == node.kind \in allowed_definition_kinds
    IN IF entered.err \/ (is_def /\ full_name.err)
       THEN [st EXCEPT !.err = TRUE, !.stack = entered.stack,
                       !.visits = Append(@, Visit(node, enclosing, st.stack, entered.stack, TRUE))]
       ELSE LET st1 == [st EXCEPT
                           !.stack = entered.stack,
                           !.imports = process_import_declaration(ImportView(node), @),
                           !.symbols = IF is_def
                                       THEN Append(@, [name |-> full_name.name,
                                                       node_kind |-> node.kind,
                                                       file_path |-> file_path,
                                                       line_number |-> node.row + 1,
                                                       dependencies |-> <<>>])
                                       ELSE @]
                st2 == collect_children(st1, node.children, file_path,
                                        EnclosingOfChildren(node, enclosing))
            IN IF st2.err
               THEN [st2 EXCEPT !.visits = Append(@, Visit(node, enclosing, st.stack, st2.stack, TRUE))]
               ELSE [st2 EXCEPT !.stack = exit_module(st2.stack),
                                !.visits = Append(@, Visit(node, enclosing, st.stack,
                                                           exit_module(st2.stack), FALSE))]

\* symbols.iter().enumerate().find(..): the first symbol at that position
FindSymbol(syms, file_path, line, node_kind) ==
    LET hits == {i \in 1..Len(syms) : /\ syms[i].file_path = file_path
                                      /\ syms[i].line_number = line
                                      /\ syms[i].node_kind = node_kind}
    IN IF hits = {} THEN 0 ELSE CHOOSE i \in hits : \A j \in hits : i <= j

PushDependency(st, call_name) ==
    IF st.stack # <<>>
    THEN [st EXCEPT !.symbols[st.stack[Len(st.stack)]].dependencies = Append(@, call_name)]
    ELSE st

\* Pass 2 on one node.  st carries symbols and symbol_stack.
RECURSIVE gather_references_at(_, _, _, _)
RECURSIVE gather_children(_, _, _, _)
gather_children(st, children, file_path, imports) ==
    IF children = <<>> THEN st
    ELSE gather_children(gather_references_at(st, Head(children), file_path, imports),
                         Tail(children), file_path, imports)

gather_references_at(st, node, file_path, imports) ==
    LET idx == IF has_field(node, "name")
               THEN FindSymbol(st.symbols, file_path,
                               child_by_field_name(node, "name").row + 1, node.kind)
               ELSE 0
    IN IF idx # 0
       THEN LET inner == gather_children([st EXCEPT !.stack = Append(@, idx)],
                                         node.children, file_path, imports)
            IN [inner EXCEPT !.stack = SubSeq(@, 1, Len(@) - 1)]
       ELSE LET st1 == IF node.kind = "call_expression" /\ has_field(node, "function")
                       THEN PushDependency(st, extract_callable_name(
                                                   child_by_field_name(node, "function"), imports))
                       ELSE IF node.kind = "method_call_expression" /\ has_field(node, "method")
                            THEN PushDependency(st, child_by_field_name(node, "method").text)
                            ELSE st
            IN gather_children(st1, node.children, file_path, imports)

\* CodeParser::parse_file on a file whose bytes tree-sitter parses to `root`
parse_file(file_path, root) ==
    LET p1 == collect_definitions_and_imports(
                  [symbols |-> <<>>, imports |-> EmptyImports, stack |-> <<>>,
                   visits |-> <<>>, err |-> FALSE], root, file_path, <<>>)
        p2 == gather_references_at([symbols |-> p1.symbols, stack |-> <<>>],
                                   root, file_path, p1.imports)
    IN IF p1.err
       THEN [symbols |-> <<>>, visits |-> p1.visits, file |-> file_path, err |-> TRUE]
       ELSE [symbols |-> p2.symbols, visits |-> p1.visits, file |-> file_path, err |-> FALSE]

\* fn a() { x(); }
TreeCall == SourceFile(<<FnItem(0, 0, "a", <<CallExpr(0, Ident(0, "x"))>>)>>)
\* fn a() { x(); } fn b() { y(); }          (one line)
TreeOneLine ==
    SourceFile(<<FnItem(0, 0, "a", <<CallExpr(0, Ident(0, "x"))>>),
                 FnItem(0, 0, "b", <<CallExpr(0, Ident(0, "y"))>>)>>)
\* fn
\* a() { x(); }
TreeSplitName == SourceFile(<<FnItem(0, 1, "a", <<CallExpr(1, Ident(1, "x"))>>)>>)
\* fn a() {
\*     fn b() { y(); }
\*     a::original();
\* }
TreeNested ==
    SourceFile(<<FnItem(0, 0, "a", <<FnItem(1, 1, "b", <<CallExpr(1, Ident(1, "y"))>>),
                                     CallExpr(2, ScopedIdent(2, "a::original"))>>)>>)
\* x();
\* fn a() {}
TreeTopLevelCall == SourceFile(<<CallExpr(0, Ident(0, "x")), FnItem(1, 1, "a", <<>>)>>)
\* fn a() { s.f(); }
TreeFieldCall == SourceFile(<<FnItem(0, 0, "a", <<CallExpr(0, FieldExpr(0, "s", "f"))>>)>>)
\* impl S {
\*     fn m() { x(); }
\* }
TreeImpl == SourceFile(<<ImplItem(0, <<FnItem(1, 1, "m", <<CallExpr(1, Ident(1, "x"))>>)>>)>>)
\* mod m {
\*     fn f() { g(); }
\* }
TreeMod == SourceFile(<<ModItem(0, "m", <<FnItem(1, 1, "f", <<CallExpr(1, Ident(1, "g"))>>)>>)>>)
\* mod m {
\*     fn <a name that is not UTF-8>() {}
\* }
TreeBadName == SourceFile(<<ModItem(0, "m", <<FnItem(1, 1, BadText, <<>>)>>)>>)

TreeCatalog == {TreeCall, TreeOneLine, TreeSplitName, TreeNested, TreeTopLevelCall,
                TreeFieldCall, TreeImpl, TreeMod, TreeBadName}
ParseCatalog == {[readable |-> TRUE, tree |-> t] : t \in TreeCatalog}

InitParse ==
    /\ disk \in [Files -> ParseCatalog]
    /\ file_hashes = [f \in Files |-> NoHash]
    /\ symbols = EmptyMap
    /\ unresolved = EmptyMap
    /\ name_map = EmptyMap
    /\ lastOp = [op |-> "new", file |-> "-", outcome |-> "none", repaired |-> {}, evicted |-> {}]
    /\ edits = 0
    /\ snapshot = "missing"
    /\ parsed = NoParse

EditParse(f) == Rewrite(f, ParseCatalog)

ParseFile(f) ==
    /\ parsed' = parse_file(f, disk[f].tree)
    /\ lastOp' = [op |-> "parse", file |-> f,
                  outcome |-> IF parsed'.err THEN "failed" ELSE "parsed",
                  repaired |-> {}, evicted |-> {}]
    /\ UNCHANGED <<disk, file_hashes, symbols, unresolved, name_map, edits, snapshot>>

NextParse ==
    \/ \E f \in Files : EditParse(f)
    \/ \E f \in Files : ParseFile(f)

SpecParse == InitParse /\ [][NextParse]_vars

----------------------------------------------------------------------------
\* Properties

Stored_ids == DOMAIN symbols
Deps(h) == symbols[h].dependencies
UsedBy(h) == symbols[h].used_by
UnresolvedNames(c) == IF c \in DOMAIN unresolved
                      THEN {unresolved[c][i] : i \in 1..Len(unresolved[c])} ELSE {}
Indexed(f) == lastOp.op = "index" /\ lastOp.file = f /\ lastOp.outcome = "indexed"
\* the last step was index_file or recheck_unresolved and it returned Ok
ReturnedOk == (lastOp.op = "index" /\ lastOp.outcome # "failed") \/ lastOp.op = "recheck"

\* C1: symmetry: after index_file or recheck_unresolved has returned, for all
\* stored symbols a and b, a is in b.dependencies if and only if b is in
\* a.used_by.
Symmetry ==
    ReturnedOk => \A a, b \in Stored_ids : (a \in Deps(b)) <=> (b \in UsedBy(a))

\* C2: after index_file or recheck_unresolved has returned, every identity
\* in the dependencies of a stored symbol is a key of the symbol store.
DependenciesStored ==
    ReturnedOk => \A s \in Stored_ids : Deps(s) \subseteq Stored_ids

\* C3: every identity in the used_by set of a stored symbol is a key of the
\* symbol store.
UsedByStored ==
    \A s \in Stored_ids : UsedBy(s) \subseteq Stored_ids

\* C3 witness: an index_file call has evicted symbols and a stored symbol
\* is still used by another one.
UsedByStoredWitness ==
    /\ lastOp.op = "index" /\ lastOp.outcome = "indexed"
    /\ lastOp.evicted # {}
    /\ \E s \in Stored_ids : UsedBy(s) # {}

\* C4: eviction completeness: after index_file(p) has re-indexed p, no
\* identity of the previous version of p that the new version does not define
\* again is in the dependencies or the used_by set of a stored symbol.
EvictionComplete ==
    \A f \in Files : Indexed(f) =>
        \A e \in lastOp.evicted \ Stored_ids :
            \A s \in Stored_ids : e \notin Deps(s) /\ e \notin UsedBy(s)

\* C5: forward-reference repair: when recheck_unresolved runs while caller c
\* holds an unresolved entry for name n and a symbol d of another file is
\* stored under the name n, then afterwards d is in c.dependencies, c is in
\* d.used_by and n is no longer listed as unresolved under c.
ForwardReferenceRepair ==
    [][lastOp'.op = "recheck" =>
        \A c \in Stored_ids : \A d \in Stored_ids :
            (/\ symbols[d].name \in UnresolvedNames(c)
             /\ d.file_path # c.file_path)
            => /\ c \in DOMAIN symbols' /\ d \in DOMAIN symbols'
               /\ d \in symbols'[c].dependencies
               /\ c \in symbols'[d].used_by
               /\ \/ c \notin DOMAIN unresolved'
                  \/ \A i \in 1..Len(unresolved'[c]) : unresolved'[c][i] # symbols[d].name]_vars

\* C5 witness: a recheck has linked a caller to a definition of another
\* file, in both directions, and dropped the name from the caller's entry.
ForwardReferenceRepairWitness ==
    /\ lastOp.op = "recheck"
    /\ \E l \in lastOp.repaired :
          /\ l[1].file_path # l[2].file_path
          /\ l[2] \in Deps(l[1])
          /\ l[1] \in UsedBy(l[2])
          /\ l[2].name \notin UnresolvedNames(l[1])

\* C6: an index_file(p) call made while the recorded fingerprint of p equals
\* the fingerprint of p's content does not run the extractor and leaves
\* file_fingerprints, symbols and unresolved unchanged; and an index_file(p)
\* call that directly follows an index_file(p) call changes none of them.
UnchangedFileSkipped ==
    [][\A f \in Files :
        /\ (/\ lastOp'.op = "index" /\ lastOp'.file = f
            /\ disk[f].readable
            /\ file_hashes[f] = calculate_file_hash(disk[f]))
           => /\ lastOp'.outcome = "skipped"
              /\ file_hashes' = file_hashes
              /\ symbols' = symbols
              /\ unresolved' = unresolved
        /\ (/\ lastOp.op = "index" /\ lastOp.file = f
            /\ lastOp'.op = "index" /\ lastOp'.file = f)
           => /\ file_hashes' = file_hashes
              /\ symbols' = symbols
              /\ unresolved' = unresolved]_vars

\* C6 witness: index_file has skipped a file whose symbols are stored.
UnchangedFileSkippedWitness ==
    /\ lastOp.op = "index" /\ lastOp.outcome = "skipped"
    /\ \E s \in Stored_ids : s.file_path = lastOp.file

\* C7: change-detection soundness: after index_file(p) on a readable p, the
\* recorded fingerprint of p equals the fingerprint of p's current content if
\* and only if extraction succeeds on that content.
ChangeDetectionSound ==
    \A f \in Files :
        (lastOp.op = "index" /\ lastOp.file = f /\ disk[f].readable)
        => ((file_hashes[f] = calculate_file_hash(disk[f])) <=> disk[f].ok)

\* C7 witness: extraction has failed on the new content of a file that was
\* indexed before; the older fingerprint is still the recorded one.
ChangeDetectionSoundWitness ==
    /\ lastOp.op = "index" /\ lastOp.outcome = "failed"
    /\ file_hashes[lastOp.file] # NoHash
    /\ file_hashes[lastOp.file] # calculate_file_hash(disk[lastOp.file])

\* C8: no self-edges: no stored symbol is in its own dependencies or in its
\* own used_by set.
NoSelfEdges ==
    \A s \in Stored_ids : s \notin Deps(s) /\ s \notin UsedBy(s)

\* C8 witness: a definition that calls its own name has been indexed.
NoSelfEdgesWitness ==
    \E f \in Files :
        /\ Indexed(f)
        /\ \E i \in 1..Len(disk[f].defs) :
              /\ disk[f].defs[i].name \in disk[f].defs[i].calls
              /\ \E s \in Stored_ids : s.file_path = f /\ s.name = disk[f].defs[i].name

\* C9: name-map consistency: in the global name map that index_file (after
\* eviction and insertion) and recheck_unresolved resolve names with,
\* identity h is listed under name n if and only if h is a key of the symbol
\* store and the stored symbol's name is n.
NameMapConsistent ==
    (lastOp.outcome = "indexed" \/ lastOp.outcome = "rechecked") =>
        \A n \in DOMAIN name_map \cup {symbols[h].name : h \in Stored_ids} :
            \A h \in Stored_ids \cup UNION {name_map[m] : m \in DOMAIN name_map} :
                (n \in DOMAIN name_map /\ h \in name_map[n])
                <=> (h \in Stored_ids /\ symbols[h].name = n)

\* C9 witness: index_file has evicted symbols, inserted new ones and resolved
\* against a map that lists one name for two files.
NameMapConsistentWitness ==
    /\ lastOp.outcome = "indexed"
    /\ lastOp.evicted # {}
    /\ \E n \in DOMAIN name_map : \E h1, h2 \in name_map[n] : h1.file_path # h2.file_path

\* C10: after index_file or recheck_unresolved has returned, every caller
\* that is a key of the unresolved table is a key of the symbol store.
UnresolvedCallersStored ==
    ReturnedOk => DOMAIN unresolved \subseteq Stored_ids

\* the identity of the i-th definition of content c when it is file f
DefId(f, c, i) == [name |-> c.defs[i].name, file_path |-> f, line_number |-> c.defs[i].line]
\* the identities the definitions of content c named r have when it is file f
LocalIds(f, c, r) == {DefId(f, c, i) : i \in {j \in 1..Len(c.defs) : c.defs[j].name = r}}
SeqNames(q) == {q[i] : i \in 1..Len(q)}

\* C11: rename cascade, first half: when index_file(p) re-indexes p and
\* thereby evicts a symbol x that the new content does not define again, every
\* stored symbol y of another file that was linked to x in both directions
\* has the name of x listed in unresolved under identity(y) afterwards, and
\* no symbol of another file is in the used_by set of a symbol of p.
RenameCascade ==
    [][\A f \in Files :
        (lastOp'.op = "index" /\ lastOp'.file = f /\ lastOp'.outcome = "indexed")
        => \A y \in Stored_ids : \A x \in Stored_ids :
              (/\ x.file_path = f /\ y.file_path # f
               /\ x \in Deps(y) /\ y \in UsedBy(x)
               /\ x \notin DOMAIN symbols')
              => /\ y \in DOMAIN unresolved'
                 /\ x.name \in SeqNames(unresolved'[y])
                 /\ \A z \in DOMAIN symbols' :
                       z.file_path = f => \A u \in symbols'[z].used_by : u.file_path = f]_vars

\* C12: rename cascade, second half: when index_file(p) has just evicted
\* the symbols that all dependencies of y (a symbol of another file q) were,
\* and index_file(q) is then called on the unmodified q, unresolved is empty
\* and y.dependencies is empty afterwards.
RenameCascadeSecondHalf ==
    [][\A f \in Files :
        (/\ lastOp.op = "index" /\ lastOp.outcome = "indexed" /\ lastOp.file # f
         /\ lastOp'.op = "index" /\ lastOp'.file = f
         /\ disk[f].readable /\ file_hashes[f] = calculate_file_hash(disk[f]))
        => \A y \in Stored_ids :
              (/\ y.file_path = f
               /\ Deps(y) # {}
               /\ Deps(y) \subseteq lastOp.evicted \ Stored_ids)
              => /\ unresolved' = EmptyMap
                 /\ y \in DOMAIN symbols'
                 /\ symbols'[y].dependencies = {}]_vars

\* C14: local-before-global tie-break: after index_file(p) has indexed p, the
\* dependencies of every symbol s of p are, for each raw name r that s calls,
\* exactly the identities p itself defines under r when there are any, and
\* the identities stored under r in the whole index only when p defines none
\* (s itself left out).
LocalBeforeGlobal ==
    \A f \in Files : Indexed(f) =>
        \A i \in 1..Len(disk[f].defs) :
            LET s == DefId(f, disk[f], i)
                cand(r) == IF LocalIds(f, disk[f], r) # {}
                           THEN LocalIds(f, disk[f], r)
                           ELSE {h \in Stored_ids : symbols[h].name = r}
            IN s \in Stored_ids /\
               Deps(s) = UNION {cand(r) : r \in disk[f].defs[i].calls} \ {s}

\* C14 witness: a symbol of the indexed file calls a name that its own file
\* defines and that another file defines too; it depends on the local one.
LocalBeforeGlobalWitness ==
    \E f \in Files :
        /\ Indexed(f)
        /\ \E i \in 1..Len(disk[f].defs) : \E r \in disk[f].defs[i].calls :
              /\ LocalIds(f, disk[f], r) # {}
              /\ LocalIds(f, disk[f], r) \subseteq Deps(DefId(f, disk[f], i))
              /\ \E h \in Stored_ids : symbols[h].name = r /\ h.file_path # f

\* C17: an unresolvable reference is state, not an error: when index_file(p)
\* runs on a readable, changed p on which extraction succeeds, it returns
\* success and records the fingerprint of p, and for every raw name r of a
\* new symbol s that neither p nor the index (after eviction and insertion)
\* defines, r is among the names appended to the unresolved entry of s.
UnresolvableIsState ==
    [][\A f \in Files :
        (/\ lastOp'.op = "index" /\ lastOp'.file = f
         /\ disk[f].readable /\ disk[f].ok
         /\ file_hashes[f] # calculate_file_hash(disk[f]))
        => /\ lastOp'.outcome = "indexed"
           /\ file_hashes'[f] = calculate_file_hash(disk[f])
           /\ \A i \in 1..Len(disk[f].defs) : \A r \in disk[f].defs[i].calls :
                 LET s == DefId(f, disk[f], i)
                     old == IF s \in DOMAIN unresolved THEN unresolved[s] ELSE <<>>
                 IN (\A h \in DOMAIN symbols' : symbols'[h].name # r)
                    => /\ s \in DOMAIN symbols'
                       /\ s \in DOMAIN unresolved'
                       /\ Len(unresolved'[s]) > Len(old)
                       /\ SubSeq(unresolved'[s], 1, Len(old)) = old
                       /\ \E k \in (Len(old) + 1)..Len(unresolved'[s]) : unresolved'[s][k] = r]_vars

\* C17 witness: index_file has indexed a file with a call to a name that no
\* stored symbol has; the name is listed under the caller.
UnresolvableIsStateWitness ==
    \E f \in Files :
        /\ Indexed(f)
        /\ file_hashes[f] = calculate_file_hash(disk[f])
        /\ \E i \in 1..Len(disk[f].defs) : \E r \in disk[f].defs[i].calls :
              /\ \A h \in Stored_ids : symbols[h].name # r
              /\ r \in UnresolvedNames(DefId(f, disk[f], i))

\* C20: unreadable file: an index_file(p) call made while the content of p
\* cannot be read returns success without running the extractor and leaves
\* file_fingerprints, symbols and unresolved unchanged.
UnreadableFileIgnored ==
    [][\A f \in Files :
        (lastOp'.op = "index" /\ lastOp'.file = f /\ ~disk[f].readable)
        => /\ lastOp'.outcome = "unreadable"
           /\ file_hashes' = file_hashes
           /\ symbols' = symbols
           /\ unresolved' = unresolved]_vars

\* C20 witness: index_file was called on a path that cannot be read any more
\* while symbols of that path are stored and its fingerprint is recorded.
UnreadableFileIgnoredWitness ==
    /\ lastOp.op = "index" /\ lastOp.outcome = "unreadable"
    /\ file_hashes[lastOp.file] # NoHash
    /\ \E s \in Stored_ids : s.file_path = lastOp.file

\* a directory run has gone through all files, rechecked and saved
RunCompleted == lastOp.op = "run" /\ lastOp.outcome = "completed"
\* the definitions of the name r in the files of the source tree other than f
DefinedElsewhere(f, r) ==
    UNION {LocalIds(g, disk[g], r) : g \in {k \in DOMAIN disk \ {f} : disk[k].readable /\ disk[k].ok}}

\* C13: overloaded names: after a directory run has indexed all files and
\* rechecked, for every symbol c of the tree and every raw name r that c
\* calls, that the file of c does not define and that several symbols of
\* other files define, every such definition is in c.dependencies and has c
\* in its used_by set.
OverloadedNames ==
    RunCompleted =>
        \A f \in DOMAIN disk : (disk[f].readable /\ disk[f].ok) =>
            \A i \in 1..Len(disk[f].defs) : \A r \in disk[f].defs[i].calls :
                (LocalIds(f, disk[f], r) = {} /\ Cardinality(DefinedElsewhere(f, r)) >= 2)
                => \A d \in DefinedElsewhere(f, r) :
                      LET c == DefId(f, disk[f], i)
                      IN /\ c \in Stored_ids /\ d \in Stored_ids
                         /\ d \in Deps(c)
                         /\ c \in UsedBy(d)

\* C15: use-alias resolution: when one file defines `original`, another
\* holds `use crate::a::original as aliased;` and a function `caller` that
\* calls `aliased()`, both are indexed with their current content and
\* recheck_unresolved has run, caller.dependencies contains
\* identity(original).
UseAliasResolved ==
    \A f, g \in DOMAIN disk :
        (/\ lastOp.op = "recheck"
         /\ disk[g] = SrcOriginal /\ file_hashes[g] = calculate_file_hash(disk[g])
         /\ disk[f] \in {SrcAliased, SrcAliasedClause}
         /\ file_hashes[f] = calculate_file_hash(disk[f]))
        => /\ DefId(f, disk[f], 1) \in Stored_ids
           /\ DefId(g, disk[g], 1) \in Deps(DefId(f, disk[f], 1))

\* C16: same-file resolution: when index_file(p) runs on an empty index and
\* p holds two definitions of which one calls the other by name, whichever
\* comes first, then afterwards the caller's dependencies are {callee}, the
\* callee's used_by is {caller} and unresolved is empty.
SameFileResolution ==
    [][\A f \in Files :
        (/\ lastOp'.op = "index" /\ lastOp'.file = f
         /\ symbols = EmptyMap /\ unresolved = EmptyMap
         /\ disk[f].readable /\ disk[f].ok /\ Len(disk[f].defs) = 2)
        => \A i, j \in 1..2 :
              (/\ i # j
               /\ disk[f].defs[i].calls = {disk[f].defs[j].name}
               /\ disk[f].defs[j].calls = {})
              => LET caller == DefId(f, disk[f], i)
                     callee == DefId(f, disk[f], j)
                 IN /\ DOMAIN symbols' = {caller, callee}
                    /\ symbols'[caller].dependencies = {callee}
                    /\ symbols'[callee].used_by = {caller}
                    /\ unresolved' = EmptyMap]_vars

\* C16 witness: a file whose first definition calls its second one has been
\* indexed into an empty index and the two are linked.
SameFileResolutionWitness ==
    \E f \in Files :
        /\ Indexed(f)
        /\ disk[f] = SrcYX
        /\ Stored_ids = {DefId(f, SrcYX, 1), DefId(f, SrcYX, 2)}
        /\ Deps(DefId(f, SrcYX, 1)) = {DefId(f, SrcYX, 2)}
        /\ UsedBy(DefId(f, SrcYX, 2)) = {DefId(f, SrcYX, 1)}
        /\ unresolved = EmptyMap

\* C18: per-file failure is contained: after a directory run over a tree in
\* which extraction fails on some file and succeeds on another, the run has
\* completed (recheck and
\* save included), no fingerprint is recorded for a file on which extraction
\* fails, and every readable file on which extraction succeeds is indexed
\* with its current content.
FailureContained ==
    (/\ lastOp.op = "run"
     /\ \E b \in DOMAIN disk : disk[b].readable /\ ~disk[b].ok
     /\ \E g \in DOMAIN disk : disk[g].readable /\ disk[g].ok)
    => /\ lastOp.outcome = "completed"
       /\ \A f \in DOMAIN disk :
             disk[f].readable =>
                ((file_hashes[f] = calculate_file_hash(disk[f])) <=> disk[f].ok)

\* C19: a symbol is destroyed when its owning file disappears: after a
\* completed directory run no stored symbol belongs to a path that no longer
\* exists.
SymbolsOfMissingFilesGone ==
    RunCompleted => \A s \in Stored_ids : disk[s.file_path].readable

\* C22: load failure handling: load returns IndexNotFound when no snapshot
\* file exists and DeserializationError when the snapshot cannot be decoded,
\* and in both cases the run goes on with a new empty index: it ends aborted
\* only when extraction fails on a file of the tree, and when it completes,
\* the saved index holds the fingerprints and the symbols of the present
\* tree and nothing of the snapshot that could not be loaded.
LoadFailureHandled ==
    [][(lastOp'.op = "run" /\ snapshot # "valid")
        => /\ lastOp'.load = (IF snapshot = "missing" THEN "IndexNotFound"
                                                      ELSE "DeserializationError")
           /\ lastOp'.outcome = "aborted"
                 => \E b \in DOMAIN disk : disk[b].readable /\ ~disk[b].ok
           /\ lastOp'.outcome = "completed"
                 => /\ snapshot' = "valid"
                    /\ \A f \in DOMAIN disk :
                          file_hashes'[f] = calculate_file_hash(disk[f])
                    /\ \A h \in DOMAIN symbols' :
                          /\ disk[h.file_path].readable
                          /\ h \in LocalIds(h.file_path, disk[h.file_path], h.name)]_vars

\* C22 witness: a run over a tree with a deleted file has completed on a
\* snapshot that could not be decoded, and the new index holds symbols.
LoadFailureHandledWitness ==
    /\ RunCompleted
    /\ lastOp.load = "DeserializationError"
    /\ \E f \in DOMAIN disk : ~disk[f].readable
    /\ symbols # EmptyMap

\* C21: round trip: saving an index reached through index_file and
\* recheck_unresolved and loading what was saved yields the same
\* file_fingerprints, the same symbols with the same dependencies and
\* used_by sets, and the same unresolved table.
RoundTrip ==
    [][lastOp'.op = "reload"
        => /\ file_hashes' = file_hashes
           /\ symbols' = symbols
           /\ unresolved' = unresolved]_vars

\* C21 witness: an index with a fingerprint, a used_by link and an
\* unresolved entry has been saved and loaded.
RoundTripWitness ==
    /\ lastOp.op = "reload"
    /\ \E f \in DOMAIN file_hashes : file_hashes[f] # NoHash
    /\ \E h \in Stored_ids : UsedBy(h) # {} /\ Deps(h) = {}
    /\ unresolved # EmptyMap

\* the raw names of caller c that no stored symbol carries, in their order
StillMissing(c) ==
    SelectSeq(unresolved[c], LAMBDA n : \A h \in DOMAIN symbols : symbols[h].name # n)

\* C25: after recheck_unresolved the unresolved table holds exactly, for each
\* caller that had an entry and is still stored, the sublist (order and
\* duplicates kept) of its raw names that no stored symbol carries; evicted
\* callers and callers with no remaining name have no entry.
RecheckResult ==
    [][lastOp'.op = "recheck"
        => unresolved' = [c \in {k \in DOMAIN unresolved \cap DOMAIN symbols : StillMissing(k) # <<>>}
                             |-> StillMissing(c)]]_vars

\* C25 witness: a recheck has repaired one name of a caller and left another
\* of its names in the table.
RecheckResultWitness ==
    /\ lastOp.op = "recheck"
    /\ \E pr \in lastOp.repaired : pr[1] \in DOMAIN unresolved

\* the identities of all definitions of content c when it is file f
AllLocalIds(f, c) == {DefId(f, c, i) : i \in 1..Len(c.defs)}

\* C26: eviction exactness: after index_file(p) has succeeded on changed
\* content, the stored symbols whose file_path is p are exactly the symbols
\* extracted from the new content, and the symbols of every other file are
\* neither added nor removed.
EvictionExact ==
    [][(lastOp'.op = "index" /\ lastOp'.outcome = "indexed")
        => /\ {h \in DOMAIN symbols' : symbols'[h].file_path = lastOp'.file}
                = AllLocalIds(lastOp'.file, disk[lastOp'.file])
           /\ {h \in DOMAIN symbols' : symbols'[h].file_path # lastOp'.file}
                = {h \in DOMAIN symbols : symbols[h].file_path # lastOp'.file}]_vars

\* C26 witness: a file has been indexed again after a change that removed a
\* definition, while another file has symbols in the store.
EvictionExactWitness ==
    /\ lastOp.op = "index" /\ lastOp.outcome = "indexed"
    /\ \E h \in lastOp.evicted : h \notin DOMAIN symbols
    /\ \E h \in DOMAIN symbols : symbols[h].file_path # lastOp.file

\* no unresolved entry of the index names a symbol the index stores
NoResolvableLeftover ==
    \A c \in DOMAIN unresolved :
        \A n \in SeqNames(unresolved[c]) : \A h \in DOMAIN symbols : symbols[h].name # n

\* the snapshot on disk, when it decodes, holds no unresolved name that a
\* symbol of the snapshot defines
SnapshotConsistent == snapshot = "valid" => NoResolvableLeftover

\* C24: directory indexing protocol: a run applies index_file to every
\* candidate file, then runs recheck_unresolved once, then saves, so every
\* run ends with a snapshot that records every readable candidate and holds
\* no unresolved entry whose name a symbol of the snapshot defines.
DirectoryProtocol ==
    [][lastOp'.op = "run"
        => /\ lastOp'.outcome = "completed"
           /\ snapshot' = "valid"
           /\ \A f \in DOMAIN disk : file_hashes'[f] = calculate_file_hash(disk[f])
           /\ NoResolvableLeftover']_vars

\* C23: order of effects inside one index_file call on a changed file: old
\* symbols of the file are removed only while the file has not been parsed
\* yet, symbols are inserted only after the parse, and the fingerprint is
\* recorded as the last effect, with every parsed symbol already stored.
OrderOfEffects ==
    [][/\ (\E h \in DOMAIN symbols : h \notin DOMAIN symbols') => parsed = NoParse
       /\ (\E h \in DOMAIN symbols' : h \notin DOMAIN symbols) => parsed # NoParse
       /\ file_hashes' # file_hashes
            => /\ symbols' = symbols /\ unresolved' = unresolved
               /\ \A i \in 1..Len(parsed.symbols) : hash(parsed.symbols[i]) \in DOMAIN symbols
               /\ lastOp'.outcome = "indexed"]_vars

\* C27: self-reference is silently dropped: a symbol that calls its own name
\* gets no dependency on itself, no used_by link to itself and no unresolved
\* entry for that name.
SelfReferenceDropped ==
    \A s \in Stored_ids :
        /\ s \notin Deps(s)
        /\ s \notin UsedBy(s)
        /\ s.name \notin UnresolvedNames(s)

\* The attribution the tree itself defines: the definition nodes are numbered
\* in the order Pass 1 meets them, and every call expression with a non-empty
\* callable name belongs to the innermost definition node around it.
RECURSIVE Attribute(_, _, _)
RECURSIVE AttributeChildren(_, _, _)
AttributeChildren(st, children, imports) ==
    IF children = <<>> THEN st
    ELSE AttributeChildren(Attribute(st, Head(children), imports), Tail(children), imports)

Attribute(st, node, imports) ==
    LET is_def == node.kind \in allowed_definition_kinds
        st1 == IF is_def
               THEN [st EXCEPT !.count = @ + 1, !.deps = Append(@, <<>>),
                               !.inner = Append(@, st.count + 1)]
               ELSE st
        call_name == IF node.kind = "call_expression" /\ has_field(node, "function")
                     THEN extract_callable_name(child_by_field_name(node, "function"), imports)
                     ELSE ""
        st2 == IF call_name # "" /\ st1.inner # <<>>
               THEN [st1 EXCEPT !.deps[st1.inner[Len(st1.inner)]] = Append(@, call_name)]
               ELSE st1
        st3 == AttributeChildren(st2, node.children, imports)
    IN IF is_def THEN [st3 EXCEPT !.inner = SubSeq(@, 1, Len(@) - 1)] ELSE st3

ExpectedDependencies(root) ==
    Attribute([count |-> 0, deps |-> <<>>, inner |-> <<>>], root, EmptyImports).deps

NonEmptyNames(q) == SelectSeq(q, LAMBDA n : n # "")

ParsedOk == lastOp.op = "parse" /\ lastOp.outcome = "parsed"

\* C28: reference attribution in Pass 2: every call expression inside a
\* definition node is recorded as a raw dependency of the symbol Pass 1
\* extracted from the innermost enclosing definition node and of no other
\* symbol; a call outside every definition is recorded nowhere.
ReferenceAttribution ==
    ParsedOk =>
        /\ Len(parsed.symbols) = Len(ExpectedDependencies(disk[lastOp.file].tree))
        /\ \A i \in 1..Len(parsed.symbols) :
              NonEmptyNames(parsed.symbols[i].dependencies)
                  = ExpectedDependencies(disk[lastOp.file].tree)[i]

\* C29: empty callable names are not references: a call whose target is
\* neither an identifier nor a scoped identifier adds nothing to the
\* dependencies of the enclosing symbol.
EmptyNamesNotReferences ==
    ParsedOk => \A i \in 1..Len(parsed.symbols) :
                    "" \notin SeqNames(parsed.symbols[i].dependencies)

\* C30: module-stack scoping in Pass 1: for every node visited, the module
\* stack when the walk leaves the node equals the stack when it entered it,
\* on normal and on error exits, and on entry the stack lists exactly the
\* names of the module items that enclose the node.
ModuleStackScoped ==
    lastOp.op = "parse" =>
        \A k \in 1..Len(parsed.visits) :
            /\ parsed.visits[k].leave = parsed.visits[k].enter
            /\ parsed.visits[k].enter = parsed.visits[k].enclosing

\* C31: recheck_unresolved only adds edges: for every symbol stored before
\* and after the call, its dependencies and its used_by set afterwards
\* contain what they held before.
RecheckOnlyAdds ==
    [][lastOp'.op = "recheck"
        => \A h \in DOMAIN symbols \cap DOMAIN symbols' :
              /\ symbols[h].dependencies \subseteq symbols'[h].dependencies
              /\ symbols[h].used_by \subseteq symbols'[h].used_by]_vars

\* C32: recheck_unresolved is idempotent: a second call directly after a
\* first one leaves the symbols, with their dependencies and used_by sets,
\* and the unresolved table as the first call left them.
RecheckIdempotent ==
    [][(lastOp.op = "recheck" /\ lastOp'.op = "recheck")
        => symbols' = symbols /\ unresolved' = unresolved]_vars

\* what a directory run that starts from an empty index can leave behind for
\* the source tree `tree`: one result per order of the files, of the raw
\* names and of the drained callers
FromScratch(tree) ==
    UNION {LET looped == handle_index_files(Indexer_new(Engine), files, tree, ords)
           IN IF looped.err THEN {}
              ELSE {[symbols |-> recheck_unresolved(looped, drained).symbols,
                     unresolved |-> recheck_unresolved(looped, drained).unresolved] :
                        drained \in SetToSeqs(DOMAIN looped.unresolved)} :
               files \in SetToSeqs(DOMAIN tree), ords \in RunOrders}

\* C33: incremental equals from-scratch: after any sequence of content
\* changes, each followed by a directory run, the symbols with their
\* dependencies and used_by sets and the unresolved table are those that a
\* run over the final contents leaves in an empty index.
IncrementalEqualsScratch ==
    (RunCompleted /\ \A f \in DOMAIN disk : disk[f].readable)
        => [symbols |-> symbols, unresolved |-> unresolved] \in FromScratch(disk)

\* what a directory run from an empty index leaves behind when collect_files
\* lists the files of `tree` in the order `files`
ScratchResults(tree, files) ==
    UNION {LET looped == handle_index_files(Indexer_new(Engine), files, tree, ords)
           IN IF looped.err THEN {}
              ELSE {[symbols |-> recheck_unresolved(looped, drained).symbols,
                     unresolved |-> recheck_unresolved(looped, drained).unresolved] :
                        drained \in SetToSeqs(DOMAIN looped.unresolved)} :
               ords \in RunOrders}

\* C34: file-order independence: what index_file on every file followed by
\* one recheck_unresolved leaves in an empty index is a result of that run
\* for every order in which the files can be passed.
FileOrderIndependent ==
    (RunCompleted /\ lastOp.load # "none")
        => \A files \in SetToSeqs(DOMAIN disk) :
              [symbols |-> symbols, unresolved |-> unresolved] \in ScratchResults(disk, files)

\* C35: fingerprint implies content is indexed: when file_hashes holds a
\* fingerprint for a file, the stored symbols of that file are exactly the
\* symbols extracted from the content with that fingerprint, also after calls
\* of index_file in which extraction failed.
FingerprintMeansIndexed ==
    \A f \in Files :
        file_hashes[f] # NoHash
            => {h \in DOMAIN symbols : h.file_path = f} = AllLocalIds(f, file_hashes[f])

\* the names the definition with identity c references in content t
ReferencedNames(c, t) ==
    UNION {t.defs[i].calls : i \in {j \in 1..Len(t.defs) : DefId(c.file_path, t, j) = c}}

PlainImportResolved ==
    \A f, g \in DOMAIN disk :
        (/\ lastOp.op = "recheck"
         /\ disk[g] = SrcOriginal /\ file_hashes[g] = calculate_file_hash(disk[g])
         /\ disk[f] \in {SrcPlain, SrcPlainArgument, SrcPlainArgumentZ}
         /\ file_hashes[f] = calculate_file_hash(disk[f]))
        => /\ DefId(f, disk[f], 1) \in Stored_ids
           /\ DefId(g, disk[g], 1) \in Stored_ids
           /\ DefId(g, disk[g], 1) \in Deps(DefId(f, disk[f], 1))
           /\ DefId(f, disk[f], 1) \in UsedBy(DefId(g, disk[g], 1))
====
